---- MODULE Spec2Model ----
(***************************************************************************)
(* python-draftin: a client of the draftin.com REST API (src/draftin.py).  *)
(*                                                                         *)
(* The model follows one DraftApi object and one DraftDocument object.     *)
(* Every public method is one action; the remote service is the            *)
(* environment and answers each request with a response chosen among a     *)
(* bounded set.  Each action records the requests it issued, the responses *)
(* it got, what it returned and what it raised.                            *)
(***************************************************************************)
EXTENDS Integers, Sequences, FiniteSets, TLC

VARIABLES
    data,   \* DraftDocument._data of the document object under observation
    op,     \* name of the last method called
    reqs,   \* the HTTP requests the last call issued, in order
    resps,  \* the responses the service gave to them, in order
    ret,    \* the value the last call returned (None when it raised)
    exc     \* the exception the last call raised, NoExc when it returned

vars == <<data, op, reqs, resps, ret, exc>>

----------------------------------------------------------------------------
(* Bounds *)

MaxId == 2          \* the service assigns ids 1..MaxId

----------------------------------------------------------------------------
(* Python values.  Every value is a record tagged with its kind, so that   *)
(* None, mappings, lists and wrapped objects can be told apart.            *)

None == [kind |-> "none"]
Dict(f) == [kind |-> "dict", val |-> f]
List(s) == [kind |-> "list", val |-> s]
PyInt(i) == [kind |-> "int", val |-> i]
PyStr(s) == [kind |-> "str", val |-> s]

Ids == 1..MaxId
Contents == {"hello world", "bye"}
Names == {"unittest"}

\* json.dumps / resp.json(): the text of a JSON document and its decoding.
\* A body that is no JSON document is raw text.
JsonText(v) == [kind |-> "json", val |-> v]
RawText(s) == [kind |-> "raw", val |-> s]

NoExc == [type |-> "none", code |-> 0]
ValueError == [type |-> "ValueError", code |-> 0]
TypeError == [type |-> "TypeError", code |-> 0]

\* resp.json(): the decoded document, or the decoder's error for a body
\* that is not JSON.
json(resp) ==
    IF resp.text.kind = "json"
    THEN [exc |-> NoExc, ret |-> resp.text.val]
    ELSE [exc |-> ValueError, ret |-> None]

----------------------------------------------------------------------------
(* Transport *)

DRAFT_API_URL == "https://draftin.com/api/v1/"

\* A path is its text after an optional leading slash, and whether it has one.
RelPath(s) == [slash |-> FALSE, rest |-> s]
AbsPath(s) == [slash |-> TRUE, rest |-> s]

\* urljoin(base, path) for the base DRAFT_API_URL, which ends with a slash:
\* a relative path is appended to the base, a path that starts with a slash
\* replaces the whole path of the base.
urljoin(base, path) ==
    IF path.slash THEN "https://draftin.com/" \o path.rest ELSE base \o path.rest

\* str.startswith('application/json') on the Content-Type header; a missing
\* header reads as ''.
JsonTypes == {"application/json", "application/json; charset=utf-8"}
ContentTypes == JsonTypes \cup {"text/html", ""}
IsJsonType(ct) == ct \in JsonTypes

\* typ.lower()
lower(typ) ==
    CASE typ = "POST" -> "post"
      [] typ = "GET" -> "get"
      [] typ = "PUT" -> "put"
      [] typ = "DELETE" -> "delete"
      [] OTHER -> typ

DraftApiException(resp) == [type |-> "DraftApiException", code |-> resp.status_code]

\* Mutant of check_response: the upper limit is off by one.
check_response_299(resp) ==
    IF resp.status_code < 200 \/ resp.status_code >= 299
    THEN DraftApiException(resp)
    ELSE NoExc

\* _check_response: the exception raised for the response, NoExc if none.
check_response(resp) ==
    IF resp.status_code < 200 \/ resp.status_code > 299
    THEN DraftApiException(resp)
    ELSE NoExc

NoBody == RawText("")
Auth == <<"user", "password">>

\* The call made on the requests library by DraftApi.request.
HttpCall(typ, path, body) ==
    LET t == lower(typ) IN
    [typ |-> t,
     path |-> path,
     url |-> urljoin(DRAFT_API_URL, path),
     auth |-> Auth,
     headers |-> IF t = "post" \/ t = "put" THEN "application/json" ELSE "",
     data |-> body]

\* Mutant of decode: the body of one space is not special.
decode_nospace(resp) ==
    IF check_response(resp) # NoExc
    THEN [exc |-> check_response(resp), ret |-> None]
    ELSE IF resp.status_code = 204 \/ ~IsJsonType(resp.ctype)
    THEN [exc |-> NoExc, ret |-> None]
    ELSE json(resp)

\* What DraftApi.request does with the response: [exc, ret].
decode(resp) ==
    IF check_response(resp) # NoExc
    THEN [exc |-> check_response(resp), ret |-> None]
    ELSE IF resp.status_code = 204 \/ ~IsJsonType(resp.ctype)
    THEN [exc |-> NoExc, ret |-> None]
    ELSE IF resp.text = RawText(" ")
    THEN [exc |-> NoExc, ret |-> None]
    ELSE json(resp)

\* DraftApi.request(typ, path, data=body) answered by resp: the call made
\* and what becomes of the response.
request(typ, path, body, resp) ==
    [req |-> HttpCall(typ, path, body),
     exc |-> decode(resp).exc,
     ret |-> decode(resp).ret]

----------------------------------------------------------------------------
(* BaseDraftObj *)

\* Truth value of a Python value, as tested by `if x` / `not x`.
falsy(v) ==
    \/ v = None
    \/ (v.kind = "int" /\ v.val = 0)
    \/ (v.kind = "str" /\ v.val = "")

\* The Python value of field name of the mapping d.
Field(d, name) == IF name = "id" THEN PyInt(d.val[name]) ELSE PyStr(d.val[name])

\* __getattr__ finds name: _data is a non-empty mapping with that key (a
\* list of mappings never contains a field name).
HasAttr(d, name) == d.kind = "dict" /\ name \in DOMAIN d.val

\* getattr(self, name, default) through __getattr__.
getattr(d, name, default) == IF HasAttr(d, name) THEN Field(d, name) ELSE default

objid(d) == getattr(d, "id", None)

\* dateutil.parser.parse
dateparse(s) == [kind |-> "datetime", val |-> s]

updated(d) ==
    LET date == getattr(d, "created_at", None)
    IN IF ~falsy(date) THEN dateparse(date.val) ELSE None

created(d) ==
    LET date == getattr(d, "updated_at", None)
    IN IF ~falsy(date) THEN dateparse(date.val) ELSE None

\* '%s' % v
Format(v) ==
    IF v = None THEN "None"
    ELSE IF v.kind = "int" THEN ToString(v.val)
    ELSE v.val

DraftDocument(d) == [kind |-> "DraftDocument", val |-> d]
DraftSavePoint(d) == [kind |-> "DraftSavePoint", val |-> d]

----------------------------------------------------------------------------
(* The remote service *)

Response(status, ct, text) == [status_code |-> status, ctype |-> ct, text |-> text]

\* A document as the service serialises it.
ServerDoc(i, c) ==
    Dict([id |-> i, content |-> c, name |-> "unittest",
          created_at |-> "2013-05-01T10:00:00Z",
          updated_at |-> "2013-06-01T12:00:00Z"])

ServerObjects == {ServerDoc(i, c) : i \in Ids, c \in Contents}
ServerLists == {List(<<>>), List(<<ServerDoc(1, "bye")>>)}
ErrorObject == Dict([error |-> "Unauthorized"])

\* Answers without a JSON value (204, the body of one space, a page that is
\* not JSON) and failures; the service may give them to any request.
EmptyResponses ==
    {Response(204, "", RawText("")),
     Response(200, "application/json; charset=utf-8", RawText(" ")),
     Response(200, "text/html", RawText("<html>"))}
FailureResponses ==
    {Response(401, "application/json", JsonText(ErrorObject)),
     Response(404, "text/html", RawText("<html>"))}

\* What the service answers to a request on one resource: a JSON object,
\* nothing, or a failure.
ServerResponses ==
    {Response(200, "application/json; charset=utf-8", JsonText(v)) :
        v \in ServerObjects}
    \cup EmptyResponses \cup FailureResponses

\* What the service answers to a listing: a JSON array, nothing, or a failure.
ListResponses ==
    {Response(200, "application/json; charset=utf-8", JsonText(v)) :
        v \in ServerLists}
    \cup EmptyResponses \cup FailureResponses

\* Responses handed to DraftApi.request directly: every status below with
\* every content type; a JSON content type carries a JSON document or the
\* body of one space, any other content type carries text.
StatusCodes == {199, 200, 204, 299, 300, 401, 404}
Bodies(ct) ==
    IF IsJsonType(ct)
    THEN {RawText(" "), JsonText(ServerDoc(1, "bye")), JsonText(ErrorObject)}
    ELSE {RawText(" "), RawText("")}
TransportResponses ==
    UNION {{Response(s, ct, b) : s \in StatusCodes, b \in Bodies(ct)} :
              ct \in ContentTypes}

\* Arguments of the callers.
NameArgs == {None} \cup {PyStr(n) : n \in Names}

\* Mappings a caller may hand to set_data.
DataInputs ==
    {None} \cup
    {Dict([k \in S \cup {"content"} |-> ServerDoc(1, "bye").val[k]]) :
        S \in SUBSET {"id", "created_at", "updated_at"}}

----------------------------------------------------------------------------
(* Operations *)

Init ==
    /\ data = None
    /\ op = "init"
    /\ reqs = <<>>
    /\ resps = <<>>
    /\ ret = None
    /\ exc = NoExc

\* The call op returned r after the requests rq answered by rs.
Return(o, rq, rs, r) ==
    /\ op' = o /\ reqs' = rq /\ resps' = rs /\ ret' = r /\ exc' = NoExc

\* The call op raised e after the requests rq answered by rs.
Raise(o, rq, rs, e) ==
    /\ op' = o /\ reqs' = rq /\ resps' = rs /\ ret' = None /\ exc' = e

\* DraftApi.request called by the user.
Request ==
    \E resp \in TransportResponses :
        LET r == request("GET", RelPath("documents.json"), NoBody, resp) IN
        /\ IF r.exc # NoExc
           THEN Raise("request", <<r.req>>, <<resp>>, r.exc)
           ELSE Return("request", <<r.req>>, <<resp>>, r.ret)
        /\ UNCHANGED data

\* DraftDocument(api): a new, unsaved document.
NewDocument ==
    /\ data' = None
    /\ Return("DraftDocument", <<>>, <<>>, DraftDocument(None))

\* BaseDraftObj.set_data
SetData ==
    \E d \in DataInputs :
        /\ data' = d
        /\ Return("set_data", <<>>, <<>>, None)

Objid ==
    /\ Return("objid", <<>>, <<>>, objid(data))
    /\ UNCHANGED data

Updated ==
    /\ Return("updated", <<>>, <<>>, updated(data))
    /\ UNCHANGED data

Created ==
    /\ Return("created", <<>>, <<>>, created(data))
    /\ UNCHANGED data

\* The iteration `for data in <value>` of documents() and savepoints() over
\* a decoded JSON array; None is not iterable.
Elements(v) == v.val

\* DraftApi.documents
Documents ==
    \E resp \in ListResponses :
        LET r == request("get", RelPath("documents.json"), NoBody, resp) IN
        /\ IF r.exc # NoExc
           THEN Raise("documents", <<r.req>>, <<resp>>, r.exc)
           ELSE IF r.ret = None
           THEN Raise("documents", <<r.req>>, <<resp>>, TypeError)
           ELSE Return("documents", <<r.req>>, <<resp>>,
                    List([i \in 1..Len(Elements(r.ret)) |->
                            DraftDocument(Elements(r.ret)[i])]))
        /\ UNCHANGED data

\* DraftDocument._get_document
get_document(docid, resp) ==
    request("get", AbsPath("documents/" \o Format(docid) \o ".json"), NoBody, resp)

\* DraftApi.document / DraftDocument.from_id: on success the document
\* returned becomes the document under observation.
Document ==
    \E docid \in Ids, resp \in ServerResponses :
        LET r == get_document(PyInt(docid), resp) IN
        IF r.exc # NoExc
        THEN /\ Raise("document", <<r.req>>, <<resp>>, r.exc)
             /\ UNCHANGED data
        ELSE /\ data' = r.ret
             /\ Return("document", <<r.req>>, <<resp>>, DraftDocument(r.ret))

\* Mutant of refresh: the backing data is replaced before the response is
\* checked.
refresh_clear(d, resp) ==
    IF falsy(objid(d))
    THEN [reqs |-> <<>>, resps |-> <<>>, exc |-> NoExc, data |-> d]
    ELSE LET r == get_document(objid(d), resp) IN
         [reqs |-> <<r.req>>, resps |-> <<resp>>, exc |-> r.exc, data |-> r.ret]

\* The outcome of DraftDocument.refresh on backing data d, the service
\* answering resp if asked: the requests issued, the exception raised and
\* the backing data afterwards.
refresh(d, resp) ==
    IF falsy(objid(d))
    THEN [reqs |-> <<>>, resps |-> <<>>, exc |-> NoExc, data |-> d]
    ELSE LET r == get_document(objid(d), resp) IN
         [reqs |-> <<r.req>>, resps |-> <<resp>>, exc |-> r.exc,
          data |-> IF r.exc # NoExc THEN d ELSE r.ret]

\* The body {content, name?} built by _createdoc and update.
Args(content, name) ==
    IF falsy(name)
    THEN [content |-> content]
    ELSE [content |-> content, name |-> name.val]

\* Mutant of createdoc: the response is not stored.
createdoc_keep(d, content, name, resp) ==
    LET r == request("post", RelPath("documents.json"),
                     JsonText(Dict(Args(content, name))), resp)
    IN [reqs |-> <<r.req>>, resps |-> <<resp>>, exc |-> r.exc, data |-> d]

\* DraftDocument._createdoc
createdoc(d, content, name, resp) ==
    LET r == request("post", RelPath("documents.json"),
                     JsonText(Dict(Args(content, name))), resp)
    IN [reqs |-> <<r.req>>, resps |-> <<resp>>, exc |-> r.exc,
        data |-> IF r.exc # NoExc THEN d ELSE r.ret]

\* Mutant of update: the refresh follows the PUT even when the PUT failed.
update_always_refresh(d, content, name, resp1, resp2) ==
    IF falsy(objid(d))
    THEN createdoc(d, content, name, resp1)
    ELSE LET r == request("put",
                      RelPath("documents/" \o Format(objid(d)) \o ".json"),
                      JsonText(Dict(Args(content, name))), resp1)
             f == refresh(d, resp2)
         IN [reqs |-> <<r.req>> \o f.reqs, resps |-> <<resp1>> \o f.resps,
             exc |-> IF r.exc # NoExc THEN r.exc ELSE f.exc, data |-> f.data]

\* DraftDocument.update on backing data d; resp1 answers the first request
\* and resp2 the second, if there is one.
update(d, content, name, resp1, resp2) ==
    IF falsy(objid(d))
    THEN createdoc(d, content, name, resp1)
    ELSE LET r == request("put",
                      RelPath("documents/" \o Format(objid(d)) \o ".json"),
                      JsonText(Dict(Args(content, name))), resp1)
         IN IF r.exc # NoExc
            THEN [reqs |-> <<r.req>>, resps |-> <<resp1>>, exc |-> r.exc,
                  data |-> d]
            ELSE LET f == refresh(d, resp2)
                 IN [reqs |-> <<r.req>> \o f.reqs, resps |-> <<resp1>> \o f.resps,
                     exc |-> f.exc, data |-> f.data]

\* The method o ended with outcome out and, if it did not raise, returned r.
Finish(o, out, r) ==
    IF out.exc # NoExc
    THEN Raise(o, out.reqs, out.resps, out.exc)
    ELSE Return(o, out.reqs, out.resps, r)

Refresh ==
    \E resp \in ServerResponses :
        LET out == refresh(data, resp) IN
        /\ data' = out.data
        /\ Finish("refresh", out, None)

Update ==
    \E content \in Contents, name \in NameArgs, resp1 \in ServerResponses :
      \E resp2 \in IF Len(update(data, content, name, resp1, resp1).reqs) = 2
                   THEN ServerResponses ELSE {resp1} :
        LET out == update(data, content, name, resp1, resp2) IN
        /\ data' = out.data
        /\ Finish("update", out, None)

\* DraftApi.create: a new document is made and updated; when the update
\* raises, the caller never sees the new document.
Create ==
    \E content \in Contents, name \in NameArgs, resp \in ServerResponses :
        LET out == update(None, content, name, resp, resp) IN
        IF out.exc # NoExc
        THEN /\ Raise("create", out.reqs, out.resps, out.exc)
             /\ UNCHANGED data
        ELSE /\ data' = out.data
             /\ Return("create", out.reqs, out.resps, DraftDocument(out.data))

\* Mutant of delete: no test for an unsaved document.
delete_noguard(d, resp) ==
    LET r == request("delete",
                 RelPath("documents/" \o Format(objid(d)) \o ".json"),
                 NoBody, resp)
    IN [reqs |-> <<r.req>>, resps |-> <<resp>>, exc |-> r.exc, data |-> d,
        ret |-> None]

\* Mutant of delete: the backing data is cleared once the document is deleted.
delete_clear(d, resp) ==
    IF falsy(objid(d))
    THEN [reqs |-> <<>>, resps |-> <<>>, exc |-> NoExc, data |-> d, ret |-> None]
    ELSE LET r == request("delete",
                      RelPath("documents/" \o Format(objid(d)) \o ".json"),
                      NoBody, resp)
         IN [reqs |-> <<r.req>>, resps |-> <<resp>>, exc |-> r.exc,
             data |-> IF r.exc # NoExc THEN d ELSE None, ret |-> None]

\* DraftDocument.delete
delete(d, resp) ==
    IF falsy(objid(d))
    THEN [reqs |-> <<>>, resps |-> <<>>, exc |-> NoExc, data |-> d, ret |-> None]
    ELSE LET r == request("delete",
                      RelPath("documents/" \o Format(objid(d)) \o ".json"),
                      NoBody, resp)
         IN [reqs |-> <<r.req>>, resps |-> <<resp>>, exc |-> r.exc, data |-> d,
             ret |-> None]

Delete ==
    \E resp \in ServerResponses :
        LET out == delete(data, resp) IN
        /\ data' = out.data
        /\ Finish("delete", out, out.ret)

\* DraftDocument.savepoints
savepoints(d, resp) ==
    IF falsy(objid(d))
    THEN [reqs |-> <<>>, resps |-> <<>>, exc |-> NoExc, data |-> d,
          ret |-> List(<<>>)]
    ELSE LET r == request("get",
                      RelPath("documents/" \o Format(objid(d)) \o "/savepoints.json"),
                      NoBody, resp)
         IN [reqs |-> <<r.req>>, resps |-> <<resp>>,
             exc |-> IF r.exc = NoExc /\ r.ret = None THEN TypeError ELSE r.exc,
             data |-> d,
             ret |-> IF r.exc = NoExc /\ r.ret # None
                     THEN List([i \in 1..Len(Elements(r.ret)) |->
                                  DraftSavePoint(Elements(r.ret)[i])])
                     ELSE None]

Savepoints ==
    \E resp \in ListResponses :
        LET out == savepoints(data, resp) IN
        /\ data' = out.data
        /\ Finish("savepoints", out, out.ret)

\* DraftDocument.createsave
createsave(d, resp) ==
    IF falsy(objid(d))
    THEN [reqs |-> <<>>, resps |-> <<>>, exc |-> NoExc, data |-> d, ret |-> None]
    ELSE LET r == request("POST",
                      RelPath("documents/" \o Format(objid(d)) \o "/savepoints.json"),
                      NoBody, resp)
         IN [reqs |-> <<r.req>>, resps |-> <<resp>>, exc |-> r.exc, data |-> d,
             ret |-> r.ret]

Createsave ==
    \E resp \in ServerResponses :
        LET out == createsave(data, resp) IN
        /\ data' = out.data
        /\ Finish("createsave", out, out.ret)

\* DraftSavePoint.from_id
SavePointFromId ==
    \E saveid \in Ids, resp \in ServerResponses :
        LET r == request("get",
                     RelPath("savepoints/" \o Format(PyInt(saveid)) \o ".json"),
                     NoBody, resp)
        IN /\ IF r.exc # NoExc
              THEN Raise("savepoint", <<r.req>>, <<resp>>, r.exc)
              ELSE Return("savepoint", <<r.req>>, <<resp>>, DraftSavePoint(r.ret))
           /\ UNCHANGED data

\* DraftSavePoint.delete on a savepoint whose backing data is d.
SavePointDelete ==
    \E d \in ServerObjects \cup {None}, resp \in ServerResponses :
        LET r == request("delete",
                     RelPath("savepoints/" \o Format(objid(d)) \o ".json"),
                     NoBody, resp)
        IN /\ IF r.exc # NoExc
              THEN Raise("savepoint.delete", <<r.req>>, <<resp>>, r.exc)
              ELSE Return("savepoint.delete", <<r.req>>, <<resp>>, r.ret)
           /\ UNCHANGED data

Next ==
    \/ Request
    \/ NewDocument
    \/ SetData
    \/ Objid
    \/ Updated
    \/ Created
    \/ Documents
    \/ Document
    \/ Create
    \/ Refresh
    \/ Update
    \/ Delete
    \/ Savepoints
    \/ Createsave
    \/ SavePointFromId
    \/ SavePointDelete

Spec == Init /\ [][Next]_vars

----------------------------------------------------------------------------
(* Properties *)

Is2xx(resp) == resp.status_code >= 200 /\ resp.status_code <= 299
ApiError == exc.type = "DraftApiException"
DocPath(v) == "documents/" \o Format(v) \o ".json"

\* C1: DraftApi.request raises DraftApiException exactly when the status is
\* below 200 or above 299; it then returns nothing and the exception's code
\* is the status; for a status in 200..299 it does not raise.
C1_RaisesExactlyOutside2xx ==
    op = "request" =>
        /\ ApiError <=> ~Is2xx(resps[1])
        /\ ApiError => ret = None /\ exc.code = resps[1].status_code
        /\ Is2xx(resps[1]) => exc = NoExc

C1_Witness ==
    /\ op = "request"
    /\ resps[1].status_code = 401
    /\ exc = [type |-> "DraftApiException", code |-> 401]

C3_UnsavedUpdateCreates ==
    [][(op' = "update" /\ objid(data) = None) =>
          /\ Len(reqs') = 1
          /\ reqs'[1].typ = "post"
          /\ reqs'[1].url = DRAFT_API_URL \o "documents.json"
          /\ (/\ Is2xx(resps'[1])
              /\ decode(resps'[1]).ret.kind = "dict"
              /\ "id" \in DOMAIN decode(resps'[1]).ret.val)
             => /\ exc' = NoExc
                /\ data' = resps'[1].text.val
                /\ objid(data') = PyInt(resps'[1].text.val.val.id)
                /\ getattr(data', "content", None)
                     = PyStr(resps'[1].text.val.val.content)
                /\ getattr(data', "name", None)
                     = PyStr(resps'[1].text.val.val.name)]_vars

C3_Witness ==
    /\ op = "update"
    /\ Len(reqs) = 1
    /\ reqs[1].typ = "post"
    /\ exc = NoExc
    /\ objid(data) = PyInt(2)
    /\ getattr(data, "content", None) = PyStr("hello world")

\* C4: when a request of create, update or delete fails with a non-2xx
\* status, the backing data after the error is the backing data before the
\* call, also when update's PUT succeeded and the refresh GET failed.
C4_FailureKeepsData ==
    [][(op' \in {"update", "delete", "create"} /\ exc'.type = "DraftApiException")
          => data' = data]_vars

C4_Witness ==
    /\ op = "update"
    /\ Len(reqs) = 2
    /\ Is2xx(resps[1])
    /\ ApiError
    /\ objid(data) # None

\* C5: every operation issues at most one request, except update on a
\* document with an id: it issues a PUT to documents/{id}.json and then, only
\* if the PUT succeeded, exactly one GET for the same id, whose decoded
\* response replaces the backing data.
C5_RequestsPerCall ==
    [][/\ op' # "update" => Len(reqs') <= 1
       /\ (op' = "update" /\ objid(data) = None) => Len(reqs') <= 1
       /\ (op' = "update" /\ objid(data) # None) =>
            /\ Len(reqs') \in {1, 2}
            /\ reqs'[1].typ = "put"
            /\ reqs'[1].path = RelPath(DocPath(objid(data)))
            /\ Len(reqs') = 2 <=> Is2xx(resps'[1])
            /\ Len(reqs') = 2 =>
                 /\ reqs'[2].typ = "get"
                 /\ reqs'[2].path.rest = reqs'[1].path.rest
                 /\ IF Is2xx(resps'[2])
                    THEN data' = decode(resps'[2]).ret
                    ELSE data' = data]_vars

C5_Witness ==
    /\ op = "update"
    /\ Len(reqs) = 2
    /\ reqs[1].typ = "put"
    /\ reqs[2].typ = "get"
    /\ exc = NoExc
    /\ data = resps[2].text.val

\* C6: on a document without an id, delete, savepoints, createsave and
\* refresh issue no request and leave the backing data unchanged; delete and
\* refresh return nothing, savepoints an empty list, createsave None.
C6_UnsavedNoOps ==
    [][(objid(data) = None
          /\ op' \in {"delete", "savepoints", "createsave", "refresh"}) =>
          /\ reqs' = <<>>
          /\ data' = data
          /\ exc' = NoExc
          /\ ret' = IF op' = "savepoints" THEN List(<<>>) ELSE None]_vars

C6_Witness ==
    /\ op = "savepoints"
    /\ reqs = <<>>
    /\ ret = List(<<>>)
    /\ objid(data) = None

\* C7: after any create or fetch that completed with a 2xx status, the
\* document's objid() is not the no-id sentinel.
C7_PersistedHasId ==
    (/\ \/ op \in {"create", "document"}
        \/ (op = "update" /\ Len(reqs) = 1 /\ reqs[1].typ = "post")
     /\ Len(resps) = 1
     /\ Is2xx(resps[1])
     /\ exc = NoExc)
    => objid(data) # None

\* C8: every request targets the API root followed by the operation's
\* relative path; the fetch of document {id} addresses the resource that
\* update's PUT addresses.
C8_UrlUnderApiRoot ==
    /\ \A i \in DOMAIN reqs : reqs[i].url = DRAFT_API_URL \o reqs[i].path.rest
    /\ (op = "update" /\ Len(reqs) = 2) => reqs[2].url = reqs[1].url

\* C9: updated() returns no value exactly when updated_at is absent, and
\* created() returns no value exactly when created_at is absent.
C9_TimestampHelpers ==
    /\ op = "updated" => (ret = None <=> ~HasAttr(data, "updated_at"))
    /\ op = "created" => (ret = None <=> ~HasAttr(data, "created_at"))

\* C10: a delete whose DELETE request succeeded leaves the backing data and
\* objid() as they were, so an update that follows issues a PUT to the
\* deleted id and no create POST.
C10_DeleteKeepsData ==
    [][/\ (op' = "delete" /\ Len(reqs') = 1 /\ exc' = NoExc) =>
            /\ data' = data
            /\ objid(data') = objid(data)
            /\ objid(data') # None
       /\ (op = "delete" /\ Len(reqs) = 1 /\ exc = NoExc /\ op' = "update") =>
            /\ reqs'[1].typ = "put"
            /\ reqs'[1].url = reqs[1].url]_vars

C10_Witness ==
    /\ op = "delete"
    /\ Len(reqs) = 1
    /\ reqs[1].typ = "delete"
    /\ Is2xx(resps[1])
    /\ exc = NoExc
    /\ objid(data) # None

====
